---------------------------- MODULE Spec2Model ----------------------------
(***************************************************************************)
(* Model of utils/datasets.py (the three Kaggle dataset loaders) and of    *)
(* utils/inference.py (CLIP zero-shot classification and embedding         *)
(* extraction).                                                            *)
(*                                                                         *)
(* The dataset loaders work on a directory tree.  The tree below data_dir  *)
(* is a record [dirs, files] of two sets of paths; a path is the sequence  *)
(* of names below data_dir (<<>> is data_dir itself) and a name is a       *)
(* record [t |-> tokens between underscores, e |-> suffix after the dot]:  *)
(* "apple_red_1" is [t |-> <<"apple","red","1">>, e |-> ""] and "a.jpg"    *)
(* is [t |-> <<"a">>, e |-> "jpg"].                                        *)
(***************************************************************************)
EXTENDS Integers, Sequences, FiniteSets, TLC

VARIABLES
    \* ---- datasets.py ----
    ds,         \* which loader this behaviour exercises
    fs,         \* the tree below data_dir
    pc,         \* position inside the running loader call
    split,      \* the call's split argument
    scan,       \* directory enumeration order of the file system in this call
    todo,       \* folders still to visit in the running move loop
    folders,    \* split folders still to visit (get_fruits_dataset, line 145)
    ops,        \* side effects performed by the running call
    fs0,        \* the tree when the call started
    dl,         \* the tree right after this call's download
    class_map,  \* the dict under construction / returned
    err,        \* the exception that ended the call
    swallowed,  \* a step of the call failed and the call went on
    prev,       \* outcome of the preceding call
    ncalls,
    \* ---- inference.py ----
    mode,       \* which inference function runs
    model,      \* the pretrained model (one scoring function of a family)
    in_map,     \* the class_map argument
    prompts,    \* number of prompts in the prompts argument
    ipc,        \* position inside the inference call
    idx,        \* enumerate() index of the next class
    preds,      \* preds / embeddings list
    labels,     \* labels list
    seen,       \* images opened so far, in order
    ierr        \* the exception that ended the inference call

dvars == <<ds, fs, pc, split, scan, todo, folders, ops, fs0, dl, class_map,
           err, swallowed, prev, ncalls>>
ivars == <<mode, model, in_map, prompts, ipc, idx, preds, labels, seen, ierr>>
vars == <<dvars, ivars>>

----------------------------------------------------------------------------
(* Bounds of the model *)

\* loader calls in one behaviour
MaxCalls == 2
\* classes of an inference class_map
MaxClasses == 2
\* files per class of an inference class_map
MaxFiles == 2
\* prompts of an inference call
MaxPrompts == 2
\* logits range over 0..MaxScore
MaxScore == 1
\* the pretrained models tried are numbered 0..MaxSeed
MaxSeed == 2
\* fixed-point resolution of the softmax probabilities
Precision == 4
\* columns of an embedding vector
EmbDim == 2

----------------------------------------------------------------------------
(* Names, paths and their ordering *)

None == "None"

D(toks) == [t |-> toks, e |-> ""]
Img(b) == [t |-> <<b>>, e |-> "jpg"]
Txt(b) == [t |-> <<b>>, e |-> "txt"]

Last(s) == s[Len(s)]
ButLast(s) == SubSeq(s, 1, Len(s) - 1)
Range(s) == {s[k] : k \in 1..Len(s)}

\* Tokens in code-point order (digits, upper case, lower case).
TokOrder ==
    <<"1", "2", "3", "6", "Downdog", "Goddess", "Plank", "Test", "Training",
      "Tree", "Validation", "Warrior2", "YogaPoses", "a", "apple", "b",
      "braeburn", "buildings", "cabbage", "carrot", "crimson", "cucumber",
      "dark", "delicios", "eggplant", "forest", "fruits-360-original-size",
      "glacier", "golden", "granny", "hit", "lady", "mountain", "notes",
      "pear", "pink", "pred", "red", "rotten", "sea", "seg", "smith", "snow",
      "street", "test", "train", "violet", "white", "yellow", "zucchini">>
ExtOrder == <<"", "jpg", "txt">>

TokRank == [x \in Range(TokOrder) |-> CHOOSE k \in 1..Len(TokOrder) : TokOrder[k] = x]
ExtRank == [x \in Range(ExtOrder) |-> CHOOSE k \in 1..Len(ExtOrder) : ExtOrder[k] = x]

\* str.__lt__ on two names made of lower-case tokens joined by "_": "_" sorts
\* before every lower-case letter, so a proper prefix sorts first.
RECURSIVE StrLess(_, _)
StrLess(a, b) ==
    IF a = <<>> THEN b # <<>>
    ELSE IF b = <<>> THEN FALSE
    ELSE IF a[1] = b[1] THEN StrLess(Tail(a), Tail(b))
    ELSE TokRank[a[1]] < TokRank[b[1]]

NameLess(a, b) ==
    IF a.t = b.t THEN ExtRank[a.e] < ExtRank[b.e] ELSE StrLess(a.t, b.t)

RECURSIVE PathLess(_, _)
PathLess(p, q) ==
    IF p = <<>> THEN q # <<>>
    ELSE IF q = <<>> THEN FALSE
    ELSE IF p[1] = q[1] THEN PathLess(Tail(p), Tail(q))
    ELSE NameLess(p[1], q[1])

RECURSIVE SortBy(_, _)
SortBy(S, asc) ==
    IF S = {} THEN <<>>
    ELSE LET m == CHOOSE x \in S : \A y \in S \ {x} :
                      IF asc THEN PathLess(x, y) ELSE PathLess(y, x)
         IN <<m>> \o SortBy(S \ {m}, asc)

\* The order in which the file system enumerates a set of entries.
Listing(S) == SortBy(S, scan = "asc")

\* sorted(classes) on a list of names
RECURSIVE SortedNames(_)
SortedNames(S) ==
    IF S = {} THEN <<>>
    ELSE LET m == CHOOSE x \in S : \A y \in S \ {x} : StrLess(x, y)
         IN <<m>> \o SortedNames(S \ {m})

----------------------------------------------------------------------------
(* The file system: pathlib / os / shutil on the tree *)

EmptyFs == [dirs |-> {}, files |-> {}]

Entries(f) == f.dirs \cup f.files
Exists(f, p) == p \in Entries(f)
IsDir(f, p) == p \in f.dirs

IsPrefix(p, q) == Len(p) <= Len(q) /\ SubSeq(q, 1, Len(p)) = p
Ancestors(p) == {SubSeq(p, 1, k) : k \in 0..Len(p)}

\* Path.__truediv__: joining the empty string leaves the path as it is
Join(p, name) == IF StrLess(<<>>, name.t) \/ name.e # "" THEN Append(p, name) ELSE p

\* Path.stem: the final component without its suffix
Stem(p) == D(Last(p).t)

\* Path.glob("*"), Path.glob("*.<ext>") and Path.glob("**/*.<ext>") on folder d;
\* ext = None stands for the pattern "*".  A folder that does not exist yields
\* nothing.
Glob(f, d, ext, recursive) ==
    IF ~IsDir(f, d) THEN {}
    ELSE {p \in Entries(f) :
            /\ IsPrefix(d, p)
            /\ IF recursive THEN Len(p) > Len(d) ELSE Len(p) = Len(d) + 1
            /\ ext # None => Last(p).e = ext}

Reroot(src, dst, p) == dst \o SubSeq(p, Len(src) + 1, Len(p))

\* os.rename of src (and everything below it) to dst
Rename(f, src, dst) ==
    [dirs  |-> {IF IsPrefix(src, p) THEN Reroot(src, dst, p) ELSE p : p \in f.dirs},
     files |-> {IF IsPrefix(src, p) THEN Reroot(src, dst, p) ELSE p : p \in f.files}]

\* os.makedirs(p, exist_ok=True): raises when p or one of its parents is a file
MakeDirsOk(f, p) == Ancestors(p) \cap f.files = {}
MakeDirs(f, p) == [f EXCEPT !.dirs = @ \cup Ancestors(p)]

\* shutil.move(src, dst): the path src ends up at (an existing directory dst
\* receives src inside it)
RealDst(f, src, dst) == IF IsDir(f, dst) THEN Append(dst, Last(src)) ELSE dst

\* shutil.move raises shutil.Error when the place inside an existing directory
\* is taken, and an OSError when a directory would replace a file or when a
\* file's new parent does not exist.
MoveOk(f, src, dst) ==
    LET real == RealDst(f, src, dst) IN
    /\ Exists(f, src)
    /\ IsDir(f, dst) => ~Exists(f, real)
    /\ real \in f.files => src \in f.files
    /\ MakeDirsOk(f, ButLast(real))
    /\ src \in f.files => IsDir(f, ButLast(real))

\* A directory whose new parent is missing is moved by copytree, which creates
\* the parents.
Move(f, src, dst) ==
    LET real == RealDst(f, src, dst)
        g    == Rename([f EXCEPT !.files = @ \ {real}], src, real)
    IN [g EXCEPT !.dirs = @ \cup Ancestors(ButLast(real))]

\* shutil.rmtree(p): everything at and below p is removed
RmTree(f, p) ==
    [dirs  |-> {q \in f.dirs : ~IsPrefix(p, q)},
     files |-> {q \in f.files : ~IsPrefix(p, q)}]

\* shutil.rmtree(p, ignore_errors=True): what may be left when removals fail.
\* Either nothing could be removed, or the contents went and p itself stayed.
RmTreeFailures(f, p) ==
    {f, [dirs  |-> {q \in f.dirs : ~IsPrefix(p, q) \/ q = p},
         files |-> {q \in f.files : ~IsPrefix(p, q)}]}

----------------------------------------------------------------------------
(* datasets.py: configuration of the three loaders *)

Extension == "jpg"

YogaClasses == <<(<<"Downdog">>), (<<"Warrior2">>), (<<"Tree">>), (<<"Plank">>), (<<"Goddess">>)>>

IntelClasses ==
    <<(<<"buildings">>), (<<"sea">>), (<<"street">>), (<<"mountain">>),
      (<<"glacier">>), (<<"forest">>)>>

FruitsClasses ==
    <<(<<"cucumber">>),
      (<<"zucchini">>),
      (<<"apple", "red", "delicios">>),
      (<<"apple", "braeburn">>),
      (<<"pear">>),
      (<<"carrot">>),
      (<<"cabbage", "white">>),
      (<<"apple", "granny", "smith">>),
      (<<"apple", "golden">>),
      (<<"apple", "crimson", "snow">>),
      (<<"apple">>),
      (<<"zucchini", "dark">>),
      (<<"apple", "red", "yellow">>),
      (<<"eggplant", "violet">>),
      (<<"apple", "red">>),
      (<<"apple", "pink", "lady">>),
      (<<"apple", "hit">>),
      (<<"apple", "rotten">>)>>

Classes(d) ==
    CASE d = "yoga" -> YogaClasses
      [] d = "intel" -> IntelClasses
      [] d = "fruits" -> FruitsClasses

\* download_dir = data_dir / "YogaPoses"
YogaDownloadDir == <<D(<<"YogaPoses">>)>>

\* fruit_root_folder = data_dir / "fruits-360-original-size" / "fruits-360-original-size"
FruitRootFolder == <<D(<<"fruits-360-original-size">>), D(<<"fruits-360-original-size">>)>>

\* for folder in ["Training", "Validation", "Test"]
FruitFolders == <<D(<<"Training">>), D(<<"Validation">>), D(<<"Test">>)>>

\* split_folder = data_dir / f"seg_{split}" / f"seg_{split}"
IntelSplitFolder(sp) == <<D(<<"seg", sp>>), D(<<"seg", sp>>)>>

\* split_folder = data_dir / split
FruitsSplitFolder(sp) == <<D(<<sp>>)>>

\* (a variant of the next definition that keeps the first token only)
VariantClassFirstToken(sub_folder) == D(SubSeq(Stem(sub_folder).t, 1, 1))

\* cls = "_".join(sub_folder.stem.split("_")[:-1])
VariantClass(sub_folder) == D(ButLast(Stem(sub_folder).t))

\* The values of the split argument tried ("train" is the default of both
\* loaders that take one).
Splits(d) ==
    CASE d = "yoga" -> {None}
      [] d = "intel" -> {"train", "test"}
      [] d = "fruits" -> {"train", "Training", "Test"}

----------------------------------------------------------------------------
(* Trees the storage location can hold, and trees a download can unpack.   *)
(* Every class folder holds one image, except one folder (the first or the *)
(* last of the list) whose content varies.                                 *)

Kinds == {"one", "two", "empty", "txt", "missing"}

FilesOf(kind) ==
    CASE kind = "one" -> {Img("a")}
      [] kind = "two" -> {Img("a"), Img("b")}
      [] kind = "txt" -> {Txt("notes")}
      [] OTHER -> {}

Frag(base, name, kind) ==
    IF kind = "missing" THEN [dirs |-> Ancestors(base), files |-> {}]
    ELSE [dirs  |-> Ancestors(Append(base, D(name))),
          files |-> {Append(base, D(name)) \o <<n>> : n \in FilesOf(kind)}]

Merge(f, g) == [dirs |-> f.dirs \cup g.dirs, files |-> f.files \cup g.files]

Tree(base, names, focus, kind) ==
    [dirs  |-> UNION {Frag(base, c, IF c = focus THEN kind ELSE "one").dirs : c \in names},
     files |-> UNION {Frag(base, c, IF c = focus THEN kind ELSE "one").files : c \in names}]

Focus(d) == {Classes(d)[1], Classes(d)[Len(Classes(d))]}

\* The archive of ujjwalchowdhury/yoga-pose-classification: YogaPoses/<class>/*.jpg
YogaArchives ==
    {Tree(YogaDownloadDir, Range(YogaClasses), c, k) : c \in Focus("yoga"), k \in Kinds}

\* The archive of puneet6060/intel-image-classification: seg_<split>/seg_<split>/<class>/*.jpg
IntelArchives ==
    {Merge(Tree(IntelSplitFolder("train"), Range(IntelClasses), c, k),
           Tree(IntelSplitFolder("test"), Range(IntelClasses), c, "one")) :
        c \in Focus("intel"), k \in Kinds}

\* The variant folders of fruits-360-original-size
FruitVariants ==
    {<<"apple", "6">>, <<"apple", "braeburn", "1">>, <<"apple", "crimson", "snow", "1">>,
     <<"apple", "golden", "1">>, <<"apple", "golden", "2">>, <<"apple", "golden", "3">>,
     <<"apple", "granny", "smith", "1">>, <<"apple", "hit", "1">>,
     <<"apple", "pink", "lady", "1">>, <<"apple", "red", "1">>, <<"apple", "red", "2">>,
     <<"apple", "red", "3">>, <<"apple", "red", "delicios", "1">>,
     <<"apple", "red", "yellow", "1">>, <<"apple", "rotten", "1">>,
     <<"cabbage", "white", "1">>, <<"carrot", "1">>, <<"cucumber", "1">>,
     <<"cucumber", "3">>, <<"eggplant", "violet", "1">>, <<"pear", "1">>, <<"pear", "3">>,
     <<"zucchini", "1">>, <<"zucchini", "dark", "1">>}

FruitFocus == {<<"apple", "6">>, <<"apple", "red", "2">>, <<"zucchini", "dark", "1">>}

\* The archive of moltean/fruits:
\* fruits-360-original-size/fruits-360-original-size/<folder>/<class>_<variant>/*.jpg
FruitArchive(v, k) ==
    Merge(Tree(Append(FruitRootFolder, FruitFolders[1]), FruitVariants, v, k),
      Merge(Tree(Append(FruitRootFolder, FruitFolders[2]), {<<"pear", "3">>}, v, k),
            Tree(Append(FruitRootFolder, FruitFolders[3]),
                 {<<"apple", "6">>, <<"apple", "red", "2">>}, v, k)))

FruitArchives == {FruitArchive(v, k) : v \in FruitFocus, k \in Kinds}

Archives(d) ==
    CASE d = "yoga" -> YogaArchives
      [] d = "intel" -> IntelArchives
      [] d = "fruits" -> FruitArchives

\* data_dir is absent, or is an empty folder left by an interrupted download
Absent == EmptyFs
EmptyDir == [dirs |-> {<<>>}, files |-> {}]

\* Storage staged by hand or left by earlier runs
YogaStorage ==
    {Absent, EmptyDir}
    \cup YogaArchives
    \cup {Tree(<<>>, Range(YogaClasses), c, k) : c \in Focus("yoga"), k \in Kinds}
    \cup {Merge(a, Frag(<<>>, c, "one")) : a \in YogaArchives, c \in Focus("yoga")}

IntelStorage == {Absent, EmptyDir} \cup IntelArchives

FruitsStorage ==
    {Absent, EmptyDir}
    \cup {FruitArchive(v, "one") : v \in FruitFocus}
    \cup {Tree(FruitsSplitFolder("Training"), Range(FruitsClasses), c, k) :
            c \in Focus("fruits"), k \in Kinds}

Storage(d) ==
    CASE d = "yoga" -> YogaStorage
      [] d = "intel" -> IntelStorage
      [] d = "fruits" -> FruitsStorage

----------------------------------------------------------------------------
(* datasets.py: the steps the three loaders share *)

NoOps == [auth |-> 0, download |-> 0, move |-> 0, mkdir |-> 0, rmtree |-> 0]
NoPrev == [returned |-> FALSE, split |-> None, map |-> <<>>]
NoErr == [type |-> None, step |-> None]
Raised(type, step) == [type |-> type, step |-> step]

Count(what) == [ops EXCEPT ![what] = @ + 1]

\* A call of loader d with split argument sp begins once the previous call has
\* returned or raised.
Begin(d, sp) ==
    /\ ds = d
    /\ pc \in {"idle", "done", "failed"}
    /\ ncalls < MaxCalls
    /\ ncalls' = ncalls + 1
    /\ prev' = [returned |-> pc = "done", split |-> split,
                map |-> IF pc = "done" THEN class_map ELSE <<>>]
    /\ split' = sp
    /\ scan' \in {"asc", "desc"}
    /\ pc' = "check"
    /\ ops' = NoOps
    /\ fs0' = fs
    /\ dl' = EmptyFs
    /\ class_map' = <<>>
    /\ err' = NoErr
    /\ swallowed' = FALSE
    /\ todo' = <<>>
    /\ folders' = <<>>
    /\ UNCHANGED <<ds, fs, ivars>>

\* if not data_dir.exists(): ... ; present leads on to `present`
CheckDataDir(d, present) ==
    /\ ds = d
    /\ pc = "check"
    /\ pc' = IF Exists(fs, <<>>) THEN present ELSE "auth"
    /\ UNCHANGED <<ds, fs, split, scan, todo, folders, ops, fs0, dl, class_map,
                   err, swallowed, prev, ncalls, ivars>>

\* (a variant of the next definition that goes on to the download after a
\* failed authentication)
AuthenticateAndContinue(d) ==
    /\ ds = d
    /\ pc = "auth"
    /\ ops' = Count("auth")
    /\ \E outcome \in {"ok", "OSError", "ImportError"} :
          /\ pc' = "download"
          /\ err' = IF outcome = "ok" THEN err ELSE Raised(outcome, "authenticate")
    /\ UNCHANGED <<ds, fs, split, scan, todo, folders, fs0, dl, class_map,
                   swallowed, prev, ncalls, ivars>>

\* try: from kaggle import KaggleApi; api = KaggleApi(); api.authenticate()
\* except OSError as e: print(...); raise e
\* An exception that is no OSError (kaggle not installed) is not caught.
Authenticate(d) ==
    /\ ds = d
    /\ pc = "auth"
    /\ ops' = Count("auth")
    /\ \E outcome \in {"ok", "OSError", "ImportError"} :
          /\ pc' = IF outcome = "ok" THEN "download" ELSE "failed"
          /\ err' = IF outcome = "ok" THEN err ELSE Raised(outcome, "authenticate")
    /\ UNCHANGED <<ds, fs, split, scan, todo, folders, fs0, dl, class_map,
                   swallowed, prev, ncalls, ivars>>

\* api.dataset_download_files(..., path=data_dir, unzip=True): creates data_dir
\* and unpacks the archive into it; it may raise before or after creating
\* data_dir.
Download(d, after, loop) ==
    /\ ds = d
    /\ pc = "download"
    /\ ops' = Count("download")
    /\ \E outcome \in Archives(d) \cup {Absent, EmptyDir} :
          /\ fs' = Merge(fs, outcome)
          /\ dl' = IF outcome \in Archives(d) THEN fs' ELSE dl
          /\ pc' = IF outcome \in Archives(d) THEN after ELSE "failed"
          /\ err' = IF outcome \in Archives(d) THEN err
                    ELSE Raised("DownloadError", "download")
          /\ folders' = IF outcome \in Archives(d) THEN loop ELSE folders
    /\ UNCHANGED <<ds, split, scan, todo, fs0, class_map, swallowed, prev, ncalls,
                   ivars>>

\* class_map = {}
\* for c in <order>:
\*     if not (<base> / c).exists(): raise ValueError(...)
\*     class_map[c] = list((<base> / c).glob(<pattern>))
\* return class_map
Missing(f, order, base) ==
    {k \in 1..Len(order) : ~Exists(f, Append(base, D(order[k])))}

Built(f, order, base, recursive, n) ==
    [k \in 1..n |->
        [cls   |-> order[k],
         files |-> Listing(Glob(f, Append(base, D(order[k])), Extension, recursive))]]

BuildClassMap(d, order, base, recursive) ==
    /\ ds = d
    /\ pc = "build"
    /\ LET miss == Missing(fs, order, base) IN
       IF miss = {}
       THEN /\ class_map' = Built(fs, order, base, recursive, Len(order))
            /\ pc' = "done"
            /\ err' = err
       ELSE LET first == CHOOSE k \in miss : \A j \in miss : k <= j IN
            /\ class_map' = Built(fs, order, base, recursive, first - 1)
            /\ pc' = "failed"
            /\ err' = Raised("ValueError", "build")
    /\ UNCHANGED <<ds, fs, split, scan, todo, folders, ops, fs0, dl, swallowed,
                   prev, ncalls, ivars>>

----------------------------------------------------------------------------
(* get_yoga_dataset *)

YogaCall == Begin("yoga", None)

YogaCheck == CheckDataDir("yoga", "wrapper")

YogaAuthenticate == Authenticate("yoga")

YogaDownload == Download("yoga", "wrapper", <<>>)

\* download_dir = data_dir / "YogaPoses"
\* if download_dir.exists():
\*     for folder in [f for f in download_dir.glob("*") if f.is_dir()]:
YogaFindWrapper ==
    /\ ds = "yoga"
    /\ pc = "wrapper"
    /\ IF Exists(fs, YogaDownloadDir)
       THEN /\ todo' = Listing({f \in Glob(fs, YogaDownloadDir, None, FALSE) : IsDir(fs, f)})
            /\ pc' = "moving"
       ELSE /\ todo' = todo
            /\ pc' = "build"
    /\ UNCHANGED <<ds, fs, split, scan, folders, ops, fs0, dl, class_map, err,
                   swallowed, prev, ncalls, ivars>>

\* shutil.move(folder, data_dir / folder.name)
YogaMove ==
    /\ ds = "yoga"
    /\ pc = "moving"
    /\ todo # <<>>
    /\ LET folder == Head(todo)
           dst    == <<Last(folder)>>
       IN \E outcome \in {"ok", "OSError"} :
            IF outcome = "ok" /\ MoveOk(fs, folder, dst)
            THEN /\ fs' = Move(fs, folder, dst)
                 /\ ops' = Count("move")
                 /\ todo' = Tail(todo)
                 /\ pc' = pc
                 /\ err' = err
            ELSE /\ fs' = fs
                 /\ ops' = ops
                 /\ todo' = todo
                 /\ pc' = "failed"
                 /\ err' = Raised(IF outcome = "ok" THEN "shutil.Error" ELSE outcome, "move")
    /\ UNCHANGED <<ds, split, scan, folders, fs0, dl, class_map, swallowed,
                   prev, ncalls, ivars>>

\* shutil.rmtree(download_dir, ignore_errors=True)
YogaRmTree ==
    /\ ds = "yoga"
    /\ pc = "moving"
    /\ todo = <<>>
    /\ \E left \in {RmTree(fs, YogaDownloadDir)} \cup RmTreeFailures(fs, YogaDownloadDir) :
          /\ fs' = left
          /\ swallowed' = (swallowed \/ left # RmTree(fs, YogaDownloadDir))
    /\ ops' = Count("rmtree")
    /\ pc' = "build"
    /\ UNCHANGED <<ds, split, scan, todo, folders, fs0, dl, class_map, err,
                   prev, ncalls, ivars>>

\* for c in classes
YogaOrder == YogaClasses

YogaBuild == BuildClassMap("yoga", YogaOrder, <<>>, FALSE)

----------------------------------------------------------------------------
(* get_intel_scene_dataset *)

IntelCall == \E sp \in Splits("intel") : Begin("intel", sp)

IntelCheck == CheckDataDir("intel", "build")

IntelAuthenticate == Authenticate("intel")

IntelDownload == Download("intel", "build", <<>>)

\* for c in classes
IntelOrder == IntelClasses

IntelBuild == BuildClassMap("intel", IntelOrder, IntelSplitFolder(split), FALSE)

----------------------------------------------------------------------------
(* get_fruits_dataset *)

FruitsCall == \E sp \in Splits("fruits") : Begin("fruits", sp)

FruitsCheck == CheckDataDir("fruits", "build")

FruitsAuthenticate == Authenticate("fruits")

\* The merge loop follows the download inside `if not data_dir.exists()`.
FruitsDownload == Download("fruits", "merge", FruitFolders)

\* for folder in ["Training", "Validation", "Test"]:
\*     for sub_folder in (fruit_root_folder / folder).glob("*"):
FruitsGlob ==
    /\ ds = "fruits"
    /\ pc = "merge"
    /\ IF folders = <<>>
       THEN /\ pc' = "build"
            /\ todo' = todo
       ELSE /\ pc' = "moving"
            /\ todo' = Listing(Glob(fs, Append(FruitRootFolder, Head(folders)), None, FALSE))
    /\ UNCHANGED <<ds, fs, split, scan, folders, ops, fs0, dl, class_map, err,
                   swallowed, prev, ncalls, ivars>>

\* cls = "_".join(sub_folder.stem.split("_")[:-1])
\* os.makedirs(data_dir / folder / cls, exist_ok=True)
\* shutil.move(sub_folder, data_dir / folder / cls / sub_folder.stem)
FruitsMove ==
    /\ ds = "fruits"
    /\ pc = "moving"
    /\ todo # <<>>
    /\ LET sub_folder == Head(todo)
           cls_dir    == Join(<<Head(folders)>>, VariantClass(sub_folder))
           dst        == Append(cls_dir, Stem(sub_folder))
           made       == MakeDirs(fs, cls_dir)
       IN \E outcome \in {"ok", "OSError"} :
            IF outcome = "ok" /\ MakeDirsOk(fs, cls_dir) /\ MoveOk(made, sub_folder, dst)
            THEN /\ fs' = Move(made, sub_folder, dst)
                 /\ ops' = [ops EXCEPT !.mkdir = @ + 1, !.move = @ + 1]
                 /\ todo' = Tail(todo)
                 /\ pc' = pc
                 /\ err' = err
            ELSE /\ fs' = IF outcome = "ok" /\ MakeDirsOk(fs, cls_dir) THEN made ELSE fs
                 /\ ops' = ops
                 /\ todo' = todo
                 /\ pc' = "failed"
                 /\ err' = Raised(IF outcome = "ok" THEN "shutil.Error" ELSE outcome, "move")
    /\ UNCHANGED <<ds, split, scan, folders, fs0, dl, class_map, swallowed,
                   prev, ncalls, ivars>>

\* the inner loop is exhausted: on to the next folder
FruitsFolderDone ==
    /\ ds = "fruits"
    /\ pc = "moving"
    /\ todo = <<>>
    /\ folders' = Tail(folders)
    /\ pc' = "merge"
    /\ UNCHANGED <<ds, fs, split, scan, todo, ops, fs0, dl, class_map, err,
                   swallowed, prev, ncalls, ivars>>

\* (a variant of the next definition that iterates the list as written)
FruitsOrderAsListed == FruitsClasses

\* for c in sorted(classes)
FruitsOrder == SortedNames(Range(FruitsClasses))

FruitsBuild == BuildClassMap("fruits", FruitsOrder, FruitsSplitFolder(split), TRUE)

----------------------------------------------------------------------------
(* The loaders' specification *)

IdleInference ==
    /\ mode = None
    /\ model = 0
    /\ in_map = <<>>
    /\ prompts = 0
    /\ ipc = "off"
    /\ idx = 0
    /\ preds = <<>>
    /\ labels = <<>>
    /\ seen = <<>>
    /\ ierr = None

Init ==
    /\ ds \in {"yoga", "intel", "fruits"}
    /\ fs \in Storage(ds)
    /\ pc = "idle"
    /\ split = None
    /\ scan = "asc"
    /\ todo = <<>>
    /\ folders = <<>>
    /\ ops = NoOps
    /\ fs0 = fs
    /\ dl = EmptyFs
    /\ class_map = <<>>
    /\ err = NoErr
    /\ swallowed = FALSE
    /\ prev = NoPrev
    /\ ncalls = 0
    /\ IdleInference

Next ==
    \/ YogaCall
    \/ YogaCheck
    \/ YogaAuthenticate
    \/ YogaDownload
    \/ YogaFindWrapper
    \/ YogaMove
    \/ YogaRmTree
    \/ YogaBuild
    \/ IntelCall
    \/ IntelCheck
    \/ IntelAuthenticate
    \/ IntelDownload
    \/ IntelBuild
    \/ FruitsCall
    \/ FruitsCheck
    \/ FruitsAuthenticate
    \/ FruitsDownload
    \/ FruitsGlob
    \/ FruitsMove
    \/ FruitsFolderDone
    \/ FruitsBuild

Spec == Init /\ [][Next]_vars

----------------------------------------------------------------------------
(* inference.py *)

\* Image files are numbered; a class_map is a sequence of [cls, files] in the
\* dict's iteration order.  The class_map with counts[i] files in class i:
FileId(i, j) == (i - 1) * (MaxFiles + 1) + j

MakeMap(counts) ==
    [i \in 1..Len(counts) |->
        [cls |-> <<"class", i>>, files |-> [j \in 1..counts[i] |-> FileId(i, j)]]]

ClassMaps ==
    UNION {{MakeMap(counts) : counts \in [1..n -> 0..MaxFiles]} : n \in 0..MaxClasses}

\* The pretrained model is an opaque function of the image (and the prompt).
\* The models tried are the members 0..MaxSeed of one family of such
\* functions: outputs.logits_per_image[img][j] and
\* model.get_image_features(img)[c] for the model numbered m.  The family
\* yields rows with a unique maximum at either end and rows with ties.
Logit(m, img, j) == ((img + m) * (j + 1) + m * j) % (MaxScore + 1)
Feature(m, img, c) == (img * (m + 1) + c) % (MaxScore + 1)

LogitsPerImage(m, files, nprompts) ==
    [k \in 1..Len(files) |-> [j \in 1..nprompts |-> Logit(m, files[k], j - 1)]]

RECURSIVE Pow2(_)
Pow2(n) == IF n = 0 THEN 1 ELSE 2 * Pow2(n - 1)

RECURSIVE Sum(_)
Sum(row) == IF row = <<>> THEN 0 ELSE Head(row) + Sum(Tail(row))

\* logits_per_image.softmax(dim=1), one row: exp(x_j) / sum_k exp(x_k) in
\* finite precision (base 2, Precision fractional steps)
Softmax(row) ==
    LET e == [j \in 1..Len(row) |-> Pow2(row[j])]
    IN [j \in 1..Len(row) |-> (e[j] * Precision) \div Sum(e)]

\* (a variant of the next definition that counts positions from 1)
ArgMaxFromOne(row) ==
    CHOOSE j \in 1..Len(row) :
        /\ \A k \in 1..Len(row) : row[k] <= row[j]
        /\ \A k \in 1..(j - 1) : row[k] < row[j]

\* probs.argmax(1), one row: the 0-based position of the first maximum
ArgMax(row) ==
    CHOOSE j \in 0..(Len(row) - 1) :
        /\ \A k \in 1..Len(row) : row[k] <= row[j + 1]
        /\ \A k \in 1..j : row[k] < row[j + 1]

\* (a variant of the next definition that numbers the classes from 1)
LabelsFromOne(n, i) == [k \in 1..n |-> i + 1]

\* len(files) * [i]
ClassLabels(n, i) == [k \in 1..n |-> i]

RECURSIVE Flatten(_)
Flatten(ss) == IF ss = <<>> THEN <<>> ELSE Head(ss) \o Flatten(Tail(ss))

\* evaluate_prompt_set_for_classes, one iteration of
\* `for i, (cls, files) in enumerate(class_map.items())`.  Image.open raises
\* on a file it cannot decode, the processor and the model raise on inputs
\* they reject, and argmax raises on rows without columns.
ClassifyClass ==
    /\ mode = "classify"
    /\ ipc = "loop"
    /\ idx < Len(in_map)
    /\ LET files == in_map[idx + 1].files
           probs == [k \in 1..Len(files) |->
                        Softmax(LogitsPerImage(model, files, prompts)[k])]
       IN \E outcome \in {"ok", "DecodeError", "ModelError"} :
            IF outcome = "ok" /\ prompts > 0
            THEN /\ preds' = preds \o [k \in 1..Len(files) |-> ArgMax(probs[k])]
                 /\ labels' = labels \o ClassLabels(Len(files), idx)
                 /\ seen' = seen \o files
                 /\ idx' = idx + 1
                 /\ ipc' = ipc
                 /\ ierr' = ierr
            ELSE /\ ipc' = "failed"
                 /\ ierr' = IF outcome = "ok" THEN "ValueError" ELSE outcome
                 /\ seen' = IF outcome = "DecodeError" THEN seen ELSE seen \o files
                 /\ UNCHANGED <<preds, labels, idx>>
    /\ UNCHANGED <<mode, model, in_map, prompts, dvars>>

\* return preds, labels
ClassifyReturn ==
    /\ mode = "classify"
    /\ ipc = "loop"
    /\ idx = Len(in_map)
    /\ ipc' = "done"
    /\ UNCHANGED <<mode, model, in_map, prompts, idx, preds, labels, seen, ierr, dvars>>

\* get_embeddings_per_class, one iteration of the loop
EmbedClass ==
    /\ mode = "embed"
    /\ ipc = "loop"
    /\ idx < Len(in_map)
    /\ LET files     == in_map[idx + 1].files
           embedding == [k \in 1..Len(files) |->
                            [c \in 1..EmbDim |-> Feature(model, files[k], c)]]
       IN \E outcome \in {"ok", "DecodeError", "ModelError"} :
            IF outcome = "ok"
            THEN /\ preds' = Append(preds, embedding)
                 /\ labels' = Append(labels, ClassLabels(Len(files), idx))
                 /\ seen' = seen \o files
                 /\ idx' = idx + 1
                 /\ ipc' = ipc
                 /\ ierr' = ierr
            ELSE /\ ipc' = "failed"
                 /\ ierr' = outcome
                 /\ seen' = IF outcome = "DecodeError" THEN seen ELSE seen \o files
                 /\ UNCHANGED <<preds, labels, idx>>
    /\ UNCHANGED <<mode, model, in_map, prompts, dvars>>

\* embeddings = np.vstack(embeddings); labels = np.hstack(labels)
\* return embeddings, labels
\* np.vstack raises ValueError on an empty list.
EmbedStack ==
    /\ mode = "embed"
    /\ ipc = "loop"
    /\ idx = Len(in_map)
    /\ IF preds = <<>>
       THEN /\ ipc' = "failed"
            /\ ierr' = "ValueError"
            /\ UNCHANGED <<preds, labels>>
       ELSE /\ ipc' = "done"
            /\ ierr' = ierr
            /\ preds' = Flatten(preds)
            /\ labels' = Flatten(labels)
    /\ UNCHANGED <<mode, model, in_map, prompts, idx, seen, dvars>>

IdleLoaders ==
    /\ ds = "yoga"
    /\ fs = Absent
    /\ pc = "off"
    /\ split = None
    /\ scan = "asc"
    /\ todo = <<>>
    /\ folders = <<>>
    /\ ops = NoOps
    /\ fs0 = Absent
    /\ dl = EmptyFs
    /\ class_map = <<>>
    /\ err = NoErr
    /\ swallowed = FALSE
    /\ prev = NoPrev
    /\ ncalls = 0

InitInference ==
    /\ mode \in {"classify", "embed"}
    /\ model \in 0..MaxSeed
    /\ in_map \in ClassMaps
    /\ prompts \in IF mode = "classify" THEN 0..MaxPrompts ELSE {0}
    /\ ipc = "loop"
    /\ idx = 0
    /\ preds = <<>>
    /\ labels = <<>>
    /\ seen = <<>>
    /\ ierr = None
    /\ IdleLoaders

NextInference ==
    \/ ClassifyClass
    \/ ClassifyReturn
    \/ EmbedClass
    \/ EmbedStack

SpecInference == InitInference /\ [][NextInference]_vars

----------------------------------------------------------------------------
(* Properties of the loaders (checked under Spec) *)

Keys(m) == [k \in 1..Len(m) |-> m[k].cls]
FileSet(m, k) == Range(m[k].files)

SameMap(a, b) ==
    /\ Keys(a) = Keys(b)
    /\ \A k \in 1..Len(a) : FileSet(a, k) = FileSet(b, k)

\* C1: when a call has returned a ClassMap and the loader is called again
\* with the same argument on the storage the first call left, the second call
\* returns the same keys with the same file set per key and performs no
\* authentication, download, directory move or delete.
C1_SecondCallIsNoOp ==
    (pc = "done" /\ prev.returned /\ prev.split = split)
        => (SameMap(prev.map, class_map) /\ ops = NoOps)

\* C2: a returned ClassMap has every configured class as a key, and every key
\* maps to a non-empty sequence of files.
C2_ReturnedClassesNonEmpty ==
    pc = "done"
        => /\ Range(Keys(class_map)) = Range(Classes(ds))
           /\ \A k \in 1..Len(class_map) : class_map[k].files # <<>>

\* C3 as stated: the keys of every returned ClassMap are in the order of the
\* loader's configured class list.
C3_KeysInListOrder == pc = "done" => Keys(class_map) = Classes(ds)

\* C3 as amended: the keys of a returned ClassMap are the configured classes,
\* in the order of the configured list for get_yoga_dataset and
\* get_intel_scene_dataset and in ascending string order for
\* get_fruits_dataset.
C3_KeyOrder ==
    pc = "done"
        => /\ Range(Keys(class_map)) = Range(Classes(ds))
           /\ Len(class_map) = Len(Classes(ds))
           /\ IF ds = "fruits"
              THEN \A k \in 1..(Len(class_map) - 1) :
                      StrLess(class_map[k].cls, class_map[k + 1].cls)
              ELSE Keys(class_map) = Classes(ds)

C3_Witness ==
    /\ pc = "done"
    /\ ds = "fruits"
    /\ class_map[1].cls = <<"apple">>
    /\ Classes(ds)[1] = <<"cucumber">>

AuthFailed == err.step = "authenticate"

\* C6: when the storage location is absent and authentication fails, the call
\* ends with that error: authentication was attempted once, nothing was
\* downloaded, moved or deleted, no ClassMap is returned and the storage
\* location is as it was before the call.
C6_AuthFailureIsFatal ==
    AuthFailed
        => /\ pc = "failed"
           /\ ops = [NoOps EXCEPT !.auth = 1]
           /\ class_map = <<>>
           /\ fs = fs0
           /\ ~Exists(fs, <<>>)

C6_Witness == AuthFailed /\ pc = "failed" /\ err.type = "OSError" /\ ds = "fruits"

\* C7: a call in which a step failed returns no ClassMap.
C7_NoFailureSwallowed == pc = "done" => ~swallowed

WrappedAtStart ==
    /\ Exists(fs0, YogaDownloadDir)
    /\ \A p \in Entries(fs0) : p = <<>> \/ IsPrefix(YogaDownloadDir, p)

\* C8: when get_yoga_dataset starts on storage holding the class folders one
\* level under YogaPoses and returns, YogaPoses is gone, every folder that was
\* under it sits directly under data_dir, and each class lists exactly the
\* image files that were in its folder under YogaPoses.
C8_YogaUnwrapped ==
    (ds = "yoga" /\ pc = "done" /\ WrappedAtStart)
        => /\ ~Exists(fs, YogaDownloadDir)
           /\ \A f \in fs0.dirs :
                 (Len(f) = 2 /\ IsPrefix(YogaDownloadDir, f)) => IsDir(fs, <<f[2]>>)
           /\ \A k \in 1..Len(class_map) :
                 FileSet(class_map, k) =
                    {<<p[2], p[3]>> : p \in {q \in fs0.files :
                        /\ Len(q) = 3
                        /\ q[1] = YogaDownloadDir[1]
                        /\ q[2] = D(class_map[k].cls)
                        /\ q[3].e = "jpg"}}

\* Where the merge loop of get_fruits_dataset puts a path of the archive:
\* <root>/<root>/<folder>/<class>_<variant>/... goes to
\* <folder>/<class>/<class>_<variant>/...
Merged(p) ==
    <<p[3], D(SubSeq(p[4].t, 1, Len(p[4].t) - 1)), p[4]>> \o SubSeq(p, 5, Len(p))

MergeFinished ==
    /\ ds = "fruits"
    /\ ops.download = 1
    /\ pc \in {"build", "done"} \/ (pc = "failed" /\ err.step = "build")

\* C9: after a fresh download get_fruits_dataset has moved every folder
\* <class>_<variant> of each split folder under the class folder named by
\* dropping the last underscore-separated token, no file is lost or
\* duplicated, and a returned ClassMap lists for each class exactly the image
\* files of the variants of that class in the requested split.
C9_FruitsMerged ==
    MergeFinished
        => /\ \A v \in dl.dirs :
                 Len(v) = 4 => (IsDir(fs, Merged(v)) /\ ~Exists(fs, v))
           /\ fs.files = {Merged(p) : p \in dl.files}
           /\ Cardinality(fs.files) = Cardinality(dl.files)
           /\ pc = "done" =>
                \A k \in 1..Len(class_map) :
                    FileSet(class_map, k) =
                       {Merged(p) : p \in {q \in dl.files :
                           /\ q[3] = D(<<split>>)
                           /\ SubSeq(q[4].t, 1, Len(q[4].t) - 1) = class_map[k].cls
                           /\ Last(q).e = "jpg"}}

C9_Witness ==
    /\ MergeFinished
    /\ pc = "done"
    /\ \E k \in 1..Len(class_map) :
          /\ class_map[k].cls = <<"apple", "red">>
          /\ Cardinality(FileSet(class_map, k)) >= 3
    /\ \E k \in 1..Len(class_map) :
          /\ class_map[k].cls = <<"apple">>
          /\ Cardinality(FileSet(class_map, k)) = 1

Wrapper(d) == IF d = "yoga" THEN YogaDownloadDir ELSE <<FruitRootFolder[1]>>

\* C10: in get_yoga_dataset and get_fruits_dataset a call that starts with
\* the storage location and the wrapper directory present has discarded the
\* wrapper by the time the classes are checked, and a call that starts with
\* the storage location present and no wrapper moves and deletes nothing.
C10_RepairFollowsWrapper ==
    (ds \in {"yoga", "fruits"} /\ pc \in {"build", "done"} /\ Exists(fs0, <<>>))
        => IF Exists(fs0, Wrapper(ds))
           THEN ~Exists(fs, Wrapper(ds))
           ELSE ops.move = 0 /\ ops.rmtree = 0

----------------------------------------------------------------------------
(* Properties of the inference functions (checked under SpecInference) *)

\* 0-based index of the class of in_map that holds image f
ClassOf(f) == (CHOOSE i \in 1..Len(in_map) : f \in Range(in_map[i].files)) - 1

\* C4: a returned ground-truth sequence is m_0 copies of 0, then m_1 copies
\* of 1, and so on: it has one entry per file, m_i entries equal to i, is
\* non-decreasing, and entry k is the index of the class of the k-th image
\* opened.  This holds for both functions.
C4_GroundTruth ==
    ipc = "done"
        => /\ Len(labels) = Sum([i \in 1..Len(in_map) |-> Len(in_map[i].files)])
           /\ \A i \in 1..Len(in_map) :
                 Cardinality({k \in 1..Len(labels) : labels[k] = i - 1})
                    = Len(in_map[i].files)
           /\ \A k \in 1..(Len(labels) - 1) : labels[k] <= labels[k + 1]
           /\ Len(seen) = Len(labels)
           /\ \A k \in 1..Len(labels) : labels[k] = ClassOf(seen[k])

C4_Witness ==
    /\ ipc = "done"
    /\ mode = "embed"
    /\ labels = <<0, 0, 1>>

\* C5: when evaluate_prompt_set_for_classes returns, predictions and ground
\* truth have the same length, entry k of both belongs to the k-th image
\* opened, and every prediction lies in 0..len(prompts)-1, whatever the
\* number of prompts.
C5_Predictions ==
    (ipc = "done" /\ mode = "classify")
        => /\ Len(preds) = Len(labels)
           /\ Len(preds) = Len(seen)
           /\ \A k \in 1..Len(preds) :
                 /\ preds[k] \in 0..(prompts - 1)
                 /\ labels[k] = ClassOf(seen[k])
                 /\ LET probs == Softmax([j \in 1..prompts |-> Logit(model, seen[k], j - 1)])
                    IN \A j \in 1..prompts : probs[j] <= probs[preds[k] + 1]

C5_Witness ==
    /\ ipc = "done"
    /\ mode = "classify"
    /\ prompts # Len(in_map)
    /\ Len(preds) >= 2
    /\ \E k \in 1..Len(preds) : preds[k] = prompts - 1 /\ prompts > 1
    /\ \E k \in 1..Len(preds) : preds[k] = 0

=============================================================================
